---------------------------- MODULE Spec2Model ----------------------------
(***************************************************************************)
(* A model of the iZ prime library (Zprime137/iZ-library):                 *)
(*   - the full-range lane sieve sieve_iZ and the segmented sieve          *)
(*     sieve_iZm (src/src/sieve/sieve_iZ.c) over the PRIMES_OBJ list       *)
(*     (src/src/modules/primes_obj.c) and the BITMAP (modules/bitmap.c);   *)
(*   - the iZ arithmetic of src/src/iZ.c;                                  *)
(*   - random_iZprime (src/src/random_prime/random_iZprime.c);             *)
(*   - the vx6 block sieve (src/src/sieve/vx6.c).                          *)
(* A BITMAP is modelled by the set of the indices whose bit is 1, a        *)
(* PRIMES_OBJ by its p_array, p_count and capacity.                        *)
(***************************************************************************)
EXTENDS Integers, Sequences, FiniteSets, TLC

VARIABLES
    sieve,      \* one run of sieve_iZ or sieve_iZm: its locals and its PRIMES_OBJ
    rnd,        \* one call of random_iZprime: the caller's (parent's) side
    workers,    \* the forked worker processes of random_iZprime
    pipe,       \* the bytes in the pipe fd[] of random_iZprime
    blk,        \* the vx6 caches and one VX_OBJ block
    calc,       \* the last call of a function of iZ.c: arguments and result
    disk        \* a binary file: the object written, the file, the object read

vars == <<sieve, rnd, workers, pipe, blk, calc, disk>>

(***************************************************************************)
(* Bounds of the model.                                                    *)
(***************************************************************************)
\* largest bound n handed to sieve_iZ and sieve_iZm
MaxN == 230

(***************************************************************************)
(* Arithmetic helpers.                                                     *)
(***************************************************************************)
Min(a, b) == IF a < b THEN a ELSE b

Range(s) == {s[i] : i \in 1..Len(s)}

\* floor of the square root, as (uint64_t)sqrt(n) and mpz_sqrt give it
ISqrt(n) == CHOOSE k \in 0..n : k * k <= n /\ (k + 1) * (k + 1) > n

\* mathematical primality: the yardstick the claims are stated against
IsPrime(k) == k > 1 /\ \A d \in 2..ISqrt(k) : k % d # 0

Ascending(s) == \A i \in 1..(Len(s) - 1) : s[i] < s[i + 1]

(***************************************************************************)
(* utils.c                                                                 *)
(***************************************************************************)
\* The bounds n at which (uint64_t)(n / log(n)) steps up by one, for
\* 2 <= n < 400; its value at n = 2 is 2.
pi_n_steps ==
    <<5, 9, 13, 17, 22, 27, 31, 36, 41, 46, 52, 57, 62, 68, 73, 79, 85, 90,
      96, 102, 108, 114, 120, 126, 132, 138, 145, 151, 157, 164, 170, 176,
      183, 189, 196, 202, 209, 215, 222, 229, 235, 242, 249, 255, 262, 269,
      276, 283, 289, 296, 303, 310, 317, 324, 331, 338, 345, 352, 359, 366,
      374, 381, 388, 395>>

\* uint64_t pi_n(int64_t n) { return n / log(n); }
pi_n(n) == 2 + Cardinality({i \in 1..Len(pi_n_steps) : pi_n_steps[i] <= n})

(***************************************************************************)
(* bitmap.c                                                                *)
(***************************************************************************)
\* bitmap_create: calloc, every bit 0
bitmap_create(size) == {}

\* bitmap_set_all on a bitmap of size bits
bitmap_set_all(size) == 0..(size - 1)

bitmap_get_bit(bitmap, idx) == idx \in bitmap

bitmap_set_bit(bitmap, idx) == bitmap \cup {idx}

bitmap_clear_bit(bitmap, idx) == bitmap \ {idx}

\* a clear_mod_p that starts one period late
bitmap_clear_mod_p_late(bitmap, p, start_idx, limit) ==
    bitmap \ {idx \in (start_idx + p)..limit : (idx - start_idx) % p = 0}

\* a clear_mod_p whose limit is exclusive
bitmap_clear_mod_p_exclusive(bitmap, p, start_idx, limit) ==
    bitmap \ {idx \in start_idx..(limit - 1) : (idx - start_idx) % p = 0}

\* for (idx = start_idx; idx <= limit; idx += p) clear bit idx
bitmap_clear_mod_p(bitmap, p, start_idx, limit) ==
    bitmap \ {idx \in start_idx..limit : (idx - start_idx) % p = 0}

\* bitwise copy of src[src_idx .. src_idx+length-1] to dest[dest_idx ..]
bitmap_copy(dest, dest_idx, src, src_idx, length) ==
    (dest \ (dest_idx..(dest_idx + length - 1)))
        \cup {dest_idx + i : i \in {j \in 0..(length - 1) : (src_idx + j) \in src}}

RECURSIVE duplicate_loop(_, _, _, _, _, _)
duplicate_loop(bitmap, start_idx, vx_size, y, i, cursor) ==
    IF i < y
    THEN duplicate_loop(bitmap_copy(bitmap, cursor, bitmap, start_idx, vx_size),
                        start_idx, vx_size, y, i + 1, cursor + vx_size)
    ELSE bitmap

\* bitmap_duplicate_segment on a bitmap of size bits
bitmap_duplicate_segment(bitmap, size, start_idx, vx_size, y) ==
    IF start_idx + vx_size * y > size
    THEN bitmap
    ELSE duplicate_loop(bitmap, start_idx, vx_size, y, 1, start_idx + vx_size)

(***************************************************************************)
(* iZ.c                                                                    *)
(***************************************************************************)
s_primes == <<5, 7, 11, 13, 17, 19, 23, 29, 31, 37, 41, 43, 47, 53, 59, 61,
              67, 71, 73, 79, 83, 89, 97>>

\* uint64_t iZ(uint64_t x, int i)
iZ(x, i) == 6 * x + i

\* a loop that also multiplies when vx * s_primes[i] reaches x_n / 2
RECURSIVE limited_vx_loop_reach(_, _, _, _)
limited_vx_loop_reach(vx, i, x_n, vx_limit) ==
    IF vx * s_primes[i + 1] <= (x_n \div 2) /\ i < vx_limit
    THEN limited_vx_loop_reach(vx * s_primes[i + 1], i + 1, x_n, vx_limit)
    ELSE vx

\* size_t compute_limited_vx(size_t x_n, int vx_limit)
RECURSIVE limited_vx_loop(_, _, _, _)
limited_vx_loop(vx, i, x_n, vx_limit) ==
    IF vx * s_primes[i + 1] < (x_n \div 2) /\ i < vx_limit
    THEN limited_vx_loop(vx * s_primes[i + 1], i + 1, x_n, vx_limit)
    ELSE vx

compute_limited_vx(x_n, vx_limit) == limited_vx_loop(35, 2, x_n, vx_limit)

\* a construct_vx2 without the test modulo 7 on x5
construct_vx2_x5_mod5(x5) ==
    x5 \cup {i \in 1..35 : ((i - 1) % 5) # 0}

\* a construct_vx2 that gives x7 the pattern of x5
construct_vx2_x7_as_x5(x7) ==
    x7 \cup {i \in 1..35 : ((i - 1) % 5) # 0 /\ ((i + 1) % 7) # 0}

\* void construct_vx2(BITMAP *x5, BITMAP *x7): the bits set in x5 and in x7
construct_vx2_x5(x5) ==
    x5 \cup {i \in 1..35 : ((i - 1) % 5) # 0 /\ ((i + 1) % 7) # 0}

construct_vx2_x7(x7) ==
    x7 \cup {i \in 1..35 : ((i + 1) % 5) # 0 /\ ((i - 1) % 7) # 0}

\* the while loop of construct_iZm_segment; w = [x5, x7], size = bits per bitmap
RECURSIVE iZm_segment_loop(_, _, _, _, _)
iZm_segment_loop(vx, size, w, current_size, idx) ==
    IF vx % s_primes[idx + 1] = 0
    THEN LET p  == s_primes[idx + 1]
             x  == (p + 1) \div 6
             d5 == bitmap_duplicate_segment(w.x5, size, 1, current_size, p)
             d7 == bitmap_duplicate_segment(w.x7, size, 1, current_size, p)
             cs == current_size * p
             nw == IF (p % 6) > 1
                   THEN [x5 |-> bitmap_clear_mod_p(d5, p, x, cs + 1),
                         x7 |-> bitmap_clear_mod_p(d7, p, p * x - x, cs + 1)]
                   ELSE [x5 |-> bitmap_clear_mod_p(d5, p, p * x - x, cs + 1),
                         x7 |-> bitmap_clear_mod_p(d7, p, x, cs + 1)]
         IN  iZm_segment_loop(vx, size, nw, cs, idx + 1)
    ELSE w

\* void construct_iZm_segment(size_t vx, BITMAP *x5, BITMAP *x7), on two
\* bitmaps of size bits holding the bits x5, x7
construct_iZm_segment(vx, size, x5, x7) ==
    iZm_segment_loop(vx, size,
                     [x5 |-> construct_vx2_x5(x5), x7 |-> construct_vx2_x7(x7)],
                     35, 2)

\* uint64_t normalized_xp(int matrix_id, uint64_t p)
\* a normalisation that answers for the opposite lane
normalized_xp_other_lane(matrix_id, p) ==
    LET x_p  == (p + 1) \div 6
        p_id == IF p % 6 = 1 THEN 1 ELSE -1
    IN  IF matrix_id < 0
        THEN (IF p_id < 0 THEN p - x_p ELSE x_p)
        ELSE (IF p_id < 0 THEN x_p ELSE p - x_p)

normalized_xp(matrix_id, p) ==
    LET x_p  == (p + 1) \div 6
        p_id == IF p % 6 = 1 THEN 1 ELSE -1
    IN  IF matrix_id < 0
        THEN (IF p_id < 0 THEN x_p ELSE p - x_p)
        ELSE (IF p_id < 0 THEN p - x_p ELSE x_p)

\* 2^e mod p, to reduce a wrapped 64-bit difference
RECURSIVE pow2_mod(_, _)
pow2_mod(e, p) == IF e = 0 THEN 1 % p ELSE (2 * pow2_mod(e - 1, p)) % p

\* (a - b) % p computed in uint64_t: a difference below 0 wraps to 2^64 + (a - b)
u64_sub_mod(a, b, p) ==
    IF a >= b THEN (a - b) % p
    ELSE (pow2_mod(64, p) + p - ((b - a) % p)) % p

\* uint64_t solve_for_x(int matrix_id, uint64_t p, size_t vx, uint64_t y)
solve_for_x(matrix_id, p, vx, y) ==
    p - u64_sub_mod(vx * y, normalized_xp(matrix_id, p), p)

(***************************************************************************)
(* primes_obj.c: the PRIMES_OBJ is the fields p_array, p_count, capacity   *)
(* of the record that owns it. primes_obj_append stores at p_count and     *)
(* increments it with no bounds check: a store at index >= capacity is a   *)
(* write past the malloc'ed block, recorded in the field overrun.          *)
(***************************************************************************)
\* PRIMES_OBJ *primes_obj_init(int initial_estimate), estimate > 0
primes_obj_init(initial_estimate) ==
    [p_array |-> <<>>, p_count |-> 0, capacity |-> initial_estimate,
     overrun |-> FALSE]

\* void primes_obj_append(PRIMES_OBJ *primes_obj, uint64_t p)
primes_obj_append(po, p) ==
    [po EXCEPT !.p_array = SubSeq(po.p_array, 1, po.p_count) \o <<p>>,
               !.p_count = po.p_count + 1,
               !.overrun = po.overrun \/ (po.p_count >= po.capacity)]

\* int primes_obj_resize_to_p_count(PRIMES_OBJ *primes_obj)
primes_obj_resize_to_p_count(po) ==
    [po EXCEPT !.p_array = SubSeq(po.p_array, 1, po.p_count),
               !.capacity = po.p_count]

RECURSIVE append_all(_, _)
append_all(po, ps) ==
    IF ps = <<>> THEN po
    ELSE append_all(primes_obj_append(po, Head(ps)), Tail(ps))


(***************************************************************************)
(* sieve_iZ.c: one run of sieve_iZ(n) or sieve_iZm(n). The loops advance   *)
(* one iteration per step; sieve.primes is the PRIMES_OBJ being filled.    *)
(***************************************************************************)
SieveIdle ==
    [pc |-> "idle", alg |-> "none", n |-> 0, x_n |-> 0, n_sqrt |-> 0,
     x |-> 0, y |-> 0, vx |-> 0, max_y |-> 0, limit |-> 0, start_i |-> 0,
     primes |-> primes_obj_init(1),
     x5 |-> {}, x7 |-> {}, tmp5 |-> {}, tmp7 |-> {}]

OthersIdleForSieve == UNCHANGED <<rnd, workers, pipe, blk, calc, disk>>

\* sieve_iZ lines 19-44: the list seeded with 2, 3, the two bitmaps all set
sieve_iZ_begin(n) ==
    /\ sieve.pc = "idle"
    /\ LET x_n == (n + 1) \div 6 + 1
       IN  sieve' = [SieveIdle EXCEPT
                !.pc = "iZ_loop", !.alg = "iZ", !.n = n, !.x_n = x_n,
                !.primes = append_all(primes_obj_init((pi_n(n) * 3) \div 2), <<2, 3>>),
                !.x5 = bitmap_set_all(x_n + 1),
                !.x7 = bitmap_set_all(x_n + 1),
                !.n_sqrt = ISqrt(n) + 1,
                !.x = 1]
    /\ OthersIdleForSieve

\* the root-prime marking of the iZ- branch (lines 57-61 and 168-172):
\* a prime z = iZ(x, -1) strikes x5 from z*x + x and x7 from z*x - x
mark_from_iZminus(w, z, x, limit) ==
    [x5 |-> bitmap_clear_mod_p(w.x5, z, z * x + x, limit),
     x7 |-> bitmap_clear_mod_p(w.x7, z, z * x - x, limit)]

\* the root-prime marking of the iZ+ branch (lines 70-74 and 180-184)
mark_from_iZplus(w, z, x, limit) ==
    [x5 |-> bitmap_clear_mod_p(w.x5, z, z * x - x, limit),
     x7 |-> bitmap_clear_mod_p(w.x7, z, z * x + x, limit)]

\* a root-prime test that stops one short of floor(sqrt(n))
is_root_prime_iZ_short(z, n_sqrt) == z < n_sqrt - 1

\* whether sieve_iZ treats z as a root prime (line 57, line 70)
is_root_prime_iZ(z, n_sqrt) == z < n_sqrt

\* one iteration of the main loop of sieve_iZ, lines 48-76
sieve_iZ_step ==
    /\ sieve.pc = "iZ_loop"
    /\ sieve.x < sieve.x_n
    /\ LET x   == sieve.x
           w0  == [x5 |-> sieve.x5, x7 |-> sieve.x7]
           g5  == bitmap_get_bit(w0.x5, x)
           z5  == iZ(x, -1)
           po1 == IF g5 THEN primes_obj_append(sieve.primes, z5) ELSE sieve.primes
           w1  == IF g5 /\ is_root_prime_iZ(z5, sieve.n_sqrt)
                  THEN mark_from_iZminus(w0, z5, x, sieve.x_n) ELSE w0
           g7  == bitmap_get_bit(w1.x7, x)
           z7  == iZ(x, 1)
           po2 == IF g7 THEN primes_obj_append(po1, z7) ELSE po1
           w2  == IF g7 /\ is_root_prime_iZ(z7, sieve.n_sqrt)
                  THEN mark_from_iZplus(w1, z7, x, sieve.x_n) ELSE w1
       IN  sieve' = [sieve EXCEPT !.primes = po2, !.x5 = w2.x5, !.x7 = w2.x7,
                                  !.x = x + 1]
    /\ OthersIdleForSieve

\* sieve_iZ lines 78-94: drop one trailing entry > n, trim, return
sieve_iZ_end ==
    /\ sieve.pc = "iZ_loop"
    /\ sieve.x >= sieve.x_n
    /\ LET po  == sieve.primes
           po1 == IF po.p_array[po.p_count] > sieve.n
                  THEN [po EXCEPT !.p_count = po.p_count - 1] ELSE po
       IN  sieve' = [sieve EXCEPT !.primes = primes_obj_resize_to_p_count(po1),
                                  !.x5 = {}, !.x7 = {}, !.pc = "done"]
    /\ OthersIdleForSieve

\* sieve_iZm lines 132-142: the primes dividing vx, appended in order
RECURSIVE presieved_loop(_, _, _, _)
presieved_loop(po, vx, i, vx_limit) ==
    IF i < vx_limit /\ vx % s_primes[i + 1] = 0
    THEN presieved_loop(primes_obj_append(po, s_primes[i + 1]), vx, i + 1, vx_limit)
    ELSE [primes |-> po, start_i |-> 2 + i]

\* sieve_iZm lines 107-157: up to the clone of the wheel into tmp5, tmp7
sieve_iZm_begin(n) ==
    /\ sieve.pc = "idle"
    /\ LET x_n == (n + 1) \div 6 + 1
           po  == append_all(primes_obj_init((pi_n(n) * 3) \div 2), <<2, 3>>)
           vx  == compute_limited_vx(x_n, 6)
           pre == presieved_loop(po, vx, 0, 6)
           w   == construct_iZm_segment(vx, vx + 10, bitmap_create(vx + 10),
                                        bitmap_create(vx + 10))
       IN  sieve' = [SieveIdle EXCEPT
                !.pc = "iZm_seg0", !.alg = "iZm", !.n = n, !.x_n = x_n,
                !.vx = vx, !.primes = pre.primes, !.start_i = pre.start_i,
                !.x5 = w.x5, !.x7 = w.x7, !.tmp5 = w.x5, !.tmp7 = w.x7,
                !.x = 2]
    /\ OthersIdleForSieve

\* whether segment 0 of sieve_iZm sieves by p (line 168, line 180)
is_root_prime_iZm(p, vx) == (p * p) \div 6 < vx

\* one iteration of the segment-0 loop of sieve_iZm, lines 160-186
sieve_iZm_seg0 ==
    /\ sieve.pc = "iZm_seg0"
    /\ sieve.x <= sieve.vx
    /\ LET x   == sieve.x
           w0  == [x5 |-> sieve.tmp5, x7 |-> sieve.tmp7]
           g5  == bitmap_get_bit(w0.x5, x)
           p5  == iZ(x, -1)
           po1 == IF g5 THEN primes_obj_append(sieve.primes, p5) ELSE sieve.primes
           w1  == IF g5 /\ is_root_prime_iZm(p5, sieve.vx)
                  THEN mark_from_iZminus(w0, p5, x, sieve.vx) ELSE w0
           g7  == bitmap_get_bit(w1.x7, x)
           p7  == iZ(x, 1)
           po2 == IF g7 THEN primes_obj_append(po1, p7) ELSE po1
           w2  == IF g7 /\ is_root_prime_iZm(p7, sieve.vx)
                  THEN mark_from_iZplus(w1, p7, x, sieve.vx) ELSE w1
       IN  sieve' = [sieve EXCEPT !.primes = po2, !.tmp5 = w2.x5, !.tmp7 = w2.x7,
                                  !.x = x + 1]
    /\ OthersIdleForSieve

\* sieve_iZm lines 189-193: segment 0 is done, the segment loop starts at y = 1
sieve_iZm_segments ==
    /\ sieve.pc = "iZm_seg0"
    /\ sieve.x > sieve.vx
    /\ sieve' = [sieve EXCEPT !.max_y = sieve.x_n \div sieve.vx,
                              !.limit = sieve.vx, !.y = 1, !.pc = "iZm_seg"]
    /\ OthersIdleForSieve

\* the marking loop of a segment, lines 204-219
RECURSIVE mark_segment_loop(_, _, _, _, _, _)
mark_segment_loop(w, po, i, vx, y, limit) ==
    IF i < po.p_count
    THEN LET p == po.p_array[i + 1]
         IN  IF (p * p) \div 6 > (y * vx + limit)
             THEN w
             ELSE mark_segment_loop(
                      [x5 |-> bitmap_clear_mod_p(w.x5, p, solve_for_x(-1, p, vx, y), limit),
                       x7 |-> bitmap_clear_mod_p(w.x7, p, solve_for_x(1, p, vx, y), limit)],
                      po, i + 1, vx, y, limit)
    ELSE w

\* the limit of segment y (lines 199-201): vx, or x_n % vx in the last one
segment_limit(y, max_y, limit, x_n, vx) == IF y = max_y THEN x_n % vx ELSE limit

\* sieve_iZm lines 193-219: a segment y >= 1 is cloned from the wheel and sieved
sieve_iZm_mark ==
    /\ sieve.pc = "iZm_seg"
    /\ sieve.y <= sieve.max_y
    /\ LET limit == segment_limit(sieve.y, sieve.max_y, sieve.limit, sieve.x_n, sieve.vx)
           w     == mark_segment_loop([x5 |-> sieve.x5, x7 |-> sieve.x7], sieve.primes,
                                      sieve.start_i, sieve.vx, sieve.y, limit)
       IN  sieve' = [sieve EXCEPT !.limit = limit, !.tmp5 = w.x5, !.tmp7 = w.x7,
                                  !.x = 1, !.pc = "iZm_collect"]
    /\ OthersIdleForSieve

\* one iteration of the collecting loop, lines 222-230
sieve_iZm_collect ==
    /\ sieve.pc = "iZm_collect"
    /\ sieve.x <= sieve.limit
    /\ LET x   == sieve.x
           yvx == sieve.y * sieve.vx
           po1 == IF bitmap_get_bit(sieve.tmp5, x)
                  THEN primes_obj_append(sieve.primes, iZ(x + yvx, -1)) ELSE sieve.primes
           po2 == IF bitmap_get_bit(sieve.tmp7, x)
                  THEN primes_obj_append(po1, iZ(x + yvx, 1)) ELSE po1
       IN  sieve' = [sieve EXCEPT !.primes = po2, !.x = x + 1]
    /\ OthersIdleForSieve

\* the end of a segment: y++ (line 193)
sieve_iZm_next ==
    /\ sieve.pc = "iZm_collect"
    /\ sieve.x > sieve.limit
    /\ sieve' = [sieve EXCEPT !.y = sieve.y + 1, !.pc = "iZm_seg"]
    /\ OthersIdleForSieve

\* while (p_array[p_count - 1] > n) p_count--;  (lines 240-241)
RECURSIVE drop_trailing(_, _)
drop_trailing(po, n) ==
    IF po.p_array[po.p_count] > n
    THEN drop_trailing([po EXCEPT !.p_count = po.p_count - 1], n)
    ELSE po

\* sieve_iZm lines 233-251: drop the entries > n, trim, return
sieve_iZm_end ==
    /\ sieve.pc = "iZm_seg"
    /\ sieve.y > sieve.max_y
    /\ sieve' = [sieve EXCEPT
            !.primes = primes_obj_resize_to_p_count(drop_trailing(sieve.primes, sieve.n)),
            !.x5 = {}, !.x7 = {}, !.tmp5 = {}, !.tmp7 = {}, !.pc = "done"]
    /\ OthersIdleForSieve

\* A store past the end of p_array (primes_obj.c line 54) lands in the heap
\* blocks malloc'ed after it (the BITMAP structs and their data): the run may
\* go on unharmed, or fault at any later point before it returns.
sieve_fault ==
    /\ sieve.pc \notin {"idle", "done", "crashed"}
    /\ sieve.primes.overrun
    /\ sieve' = [sieve EXCEPT !.pc = "crashed"]
    /\ OthersIdleForSieve

NextSieve ==
    \/ \E n \in 2..MaxN : sieve_iZ_begin(n)
    \/ sieve_iZ_step
    \/ sieve_iZ_end
    \/ \E n \in 2..MaxN : sieve_iZm_begin(n)
    \/ sieve_iZm_seg0
    \/ sieve_iZm_segments
    \/ sieve_iZm_mark
    \/ sieve_iZm_collect
    \/ sieve_iZm_next
    \/ sieve_iZm_end
    \/ sieve_fault

(***************************************************************************)
(* random_iZprime (random_prime/random_iZprime.c): the search, in-process  *)
(* or in forked workers that publish their candidate through a pipe.       *)
(***************************************************************************)
\* largest bit size requested
MaxBits == 9
\* largest worker count requested
MaxCores == 2
\* largest value drawn by mpz_urandomm in set_random_base
MaxX == 6
\* attempts_limit of search_p_in_iZm (1000000 in the source), scaled
AttemptsLimit == 2
\* iteration bound of the co-prime loop of set_random_base
GcdTries == 10000

\* cached_p_obj->p_array, the primes of sieve_iZ(vx6); p_array[i] is
\* cached_p_array[i + 1]
cached_p_array == <<2, 3, 5, 7, 11, 13, 17, 19, 23>>

\* mpz_sizeinbase(n, 2)
RECURSIVE mpz_sizeinbase2(_)
mpz_sizeinbase2(n) == IF n < 2 THEN 1 ELSE 1 + mpz_sizeinbase2(n \div 2)

RECURSIVE mpz_gcd(_, _)
mpz_gcd(a, b) == IF b = 0 THEN a ELSE mpz_gcd(b, a % b)

\* mpz_probab_prime_p, taken as exact
mpz_probab_prime_p(n) == IsPrime(n)

\* the while loop of gmp_compute_max_vx; returns <<vx, i>>
RECURSIVE max_vx_loop(_, _, _)
max_vx_loop(vx, i, bit_size) ==
    IF mpz_sizeinbase2(vx) < bit_size
    THEN max_vx_loop(vx * cached_p_array[i + 2], i + 1, bit_size)
    ELSE <<vx, i>>

gmp_compute_max_vx(bit_size) ==
    LET r == max_vx_loop(cached_p_array[3], 2, bit_size)
    IN  r[1] \div cached_p_array[r[2] + 1]

\* the assertion of iZ_gmp on x
iZ_gmp_asserts(x, i) == (i = -1 \/ i = 1) /\ x > 0

iZ_gmp(x, i) == IF i > 0 THEN 6 * x + 1 ELSE 6 * x - 1

\* the for loop of set_random_base: add 6 until co-prime with vx
RECURSIVE coprime_loop(_, _, _)
coprime_loop(p, vx, i) ==
    IF i < GcdTries
    THEN LET q == p + 6
         IN  IF mpz_gcd(vx, q) = 1 THEN q ELSE coprime_loop(q, vx, i + 1)
    ELSE p

\* set_random_base for the drawn value x (x > 0)
set_random_base(x, matrix_id, vx) == coprime_loop(iZ_gmp(x, matrix_id), vx, 1) + vx

\* the for loop of search_p_in_iZm from attempt i; 0 when exhausted
RECURSIVE search_loop(_, _, _)
search_loop(tmp, vx, i) ==
    IF i < AttemptsLimit
    THEN IF mpz_probab_prime_p(tmp + vx) THEN tmp + vx
         ELSE search_loop(tmp + vx, vx, i + 1)
    ELSE 0

\* mpz_get_str(NULL, 10, n): the decimal digits as bytes, without the NUL
RECURSIVE mpz_get_str(_)
mpz_get_str(n) ==
    IF n < 10 THEN <<48 + n>> ELSE Append(mpz_get_str(n \div 10), 48 + (n % 10))

IsDigit(b) == b \in 48..57

\* the C string starting at s: the bytes before the first NUL
RECURSIVE c_string(_)
c_string(s) ==
    IF s = <<>> \/ Head(s) = 0 THEN <<>> ELSE <<Head(s)>> \o c_string(Tail(s))

RECURSIVE digits_value(_, _)
digits_value(s, acc) ==
    IF s = <<>> THEN acc ELSE digits_value(Tail(s), 10 * acc + (Head(s) - 48))

\* mpz_set_str(p, str, 10): p is kept when str is not a decimal number
mpz_set_str(p, str) ==
    IF str = <<>> \/ \E j \in 1..Len(str) : ~IsDigit(str[j])
    THEN [ret |-> -1, val |-> p]
    ELSE [ret |-> 0, val |-> digits_value(str, 0)]

\* memset(buf, 0, size)
zero_bytes(size) == [j \in 1..size |-> 0]

\* what may follow buf on the stack when mpz_set_str runs past its end
Overrun == {<<>>} \cup {<<b>> : b \in (48..57) \cup {58}}

RndIdle ==
    [pc |-> "idle", p_id |-> 1, bit_size |-> 0, cores_num |-> 0, vx |-> 0,
     tmp |-> 0, i |-> 0, p |-> 0, forked |-> 0, str_size |-> 0, buf |-> <<>>,
     n |-> -1, k |-> 0]

PipeEmpty == [bytes |-> <<>>, published |-> <<>>]

Alive == {"searching", "found", "written"}
Terminated == {"exited", "aborted", "killed"}

OthersIdleForRnd == UNCHANGED <<sieve, blk, calc, disk>>

\* random_iZprime is called on p = 0 (mpz_init by the caller): vx is
\* computed, then the in-process search or the pipe
random_iZprime_begin(p_id, bit_size, cores_num) ==
    /\ rnd.pc = "idle"
    /\ rnd' = [rnd EXCEPT !.pc = IF cores_num < 2 THEN "base" ELSE "fork",
                          !.p_id = p_id, !.bit_size = bit_size,
                          !.cores_num = cores_num,
                          !.vx = gmp_compute_max_vx(bit_size)]
    /\ UNCHANGED <<workers, pipe>>
    /\ OthersIdleForRnd

\* in-process search_p_in_iZm: set_random_base on a drawn x, then p = 0
search_base(x) ==
    /\ rnd.pc = "base"
    /\ IF iZ_gmp_asserts(x, rnd.p_id)
       THEN rnd' = [rnd EXCEPT !.pc = "search",
                               !.tmp = set_random_base(x, rnd.p_id, rnd.vx),
                               !.p = 0, !.i = 0]
       ELSE rnd' = [rnd EXCEPT !.pc = "aborted"]
    /\ UNCHANGED <<workers, pipe>>
    /\ OthersIdleForRnd

\* one iteration of the search loop; a prime ends the call
search_attempt ==
    /\ rnd.pc = "search"
    /\ rnd.i < AttemptsLimit
    /\ LET t == rnd.tmp + rnd.vx
       IN  IF mpz_probab_prime_p(t)
           THEN rnd' = [rnd EXCEPT !.tmp = t, !.p = t, !.pc = "returned"]
           ELSE rnd' = [rnd EXCEPT !.tmp = t, !.i = rnd.i + 1]
    /\ UNCHANGED <<workers, pipe>>
    /\ OthersIdleForRnd

\* the loop ran out with p = 0: search_p_in_iZm calls itself
search_restart ==
    /\ rnd.pc = "search"
    /\ rnd.i >= AttemptsLimit
    /\ rnd.p = 0
    /\ rnd' = [rnd EXCEPT !.pc = "base"]
    /\ UNCHANGED <<workers, pipe>>
    /\ OthersIdleForRnd

\* one iteration of the fork loop
parent_fork ==
    /\ rnd.pc = "fork"
    /\ rnd.forked < rnd.cores_num
    /\ workers' = Append(workers, [st |-> "searching", cand |-> 0,
                                   signalled |-> FALSE, reaped |-> FALSE])
    /\ rnd' = [rnd EXCEPT !.forked = rnd.forked + 1]
    /\ UNCHANGED pipe
    /\ OthersIdleForRnd

\* close(fd[1]); the receive buffer of bit_size / 3 zero bytes
parent_close_write ==
    /\ rnd.pc = "fork"
    /\ rnd.forked = rnd.cores_num
    /\ rnd' = [rnd EXCEPT !.pc = "read", !.str_size = rnd.bit_size \div 3,
                          !.buf = zero_bytes(rnd.bit_size \div 3)]
    /\ UNCHANGED <<workers, pipe>>
    /\ OthersIdleForRnd

\* a worker's search_p_in_iZm on a drawn x: the assertion aborts it, a prime
\* becomes its candidate, an exhausted loop leaves it searching
worker_search(w, x) ==
    /\ workers[w].st = "searching"
    /\ IF iZ_gmp_asserts(x, rnd.p_id)
       THEN LET c == search_loop(set_random_base(x, rnd.p_id, rnd.vx), rnd.vx, 0)
            IN  workers' = IF c # 0
                           THEN [workers EXCEPT ![w].st = "found", ![w].cand = c]
                           ELSE workers
       ELSE workers' = [workers EXCEPT ![w].st = "aborted"]
    /\ UNCHANGED <<rnd, pipe>>
    /\ OthersIdleForRnd

\* write(fd[1], candidate_str, strlen(candidate_str) + 1)
worker_write(w) ==
    /\ workers[w].st = "found"
    /\ pipe' = [bytes |-> pipe.bytes \o mpz_get_str(workers[w].cand) \o <<0>>,
                published |-> Append(pipe.published, workers[w].cand)]
    /\ workers' = [workers EXCEPT ![w].st = "written"]
    /\ UNCHANGED rnd
    /\ OthersIdleForRnd

\* close(fd[1]); exit(0)
worker_exit(w) ==
    /\ workers[w].st = "written"
    /\ workers' = [workers EXCEPT ![w].st = "exited"]
    /\ UNCHANGED <<rnd, pipe>>
    /\ OthersIdleForRnd

\* SIGTERM is delivered to a worker that still runs
worker_sigterm(w) ==
    /\ workers[w].signalled
    /\ workers[w].st \in Alive
    /\ workers' = [workers EXCEPT ![w].st = "killed"]
    /\ UNCHANGED <<rnd, pipe>>
    /\ OthersIdleForRnd

\* every write end of the pipe is closed: read sees end of file
write_ends_closed == \A w \in 1..Len(workers) : workers[w].st \in Terminated

\* the single read of at most str_size bytes and, when it got any, mpz_set_str
\* on buf; buf without a NUL is read past its end
parent_read ==
    /\ rnd.pc = "read"
    /\ Len(pipe.bytes) > 0 \/ write_ends_closed
    /\ LET n   == Min(rnd.str_size, Len(pipe.bytes))
           buf == SubSeq(pipe.bytes, 1, n) \o zero_bytes(rnd.str_size - n)
       IN  /\ pipe' = [pipe EXCEPT !.bytes = SubSeq(pipe.bytes, n + 1, Len(pipe.bytes))]
           /\ \E tail \in (IF \E j \in 1..Len(buf) : buf[j] = 0 THEN {<<>>} ELSE Overrun) :
                 rnd' = [rnd EXCEPT !.pc = "kill", !.n = n, !.buf = buf, !.k = 0,
                            !.p = IF n > 0
                                  THEN mpz_set_str(rnd.p, c_string(buf \o tail)).val
                                  ELSE rnd.p]
    /\ UNCHANGED workers
    /\ OthersIdleForRnd

\* kill(pids[k], SIGTERM)
parent_kill ==
    /\ rnd.pc = "kill"
    /\ rnd.k < rnd.cores_num
    /\ workers' = [workers EXCEPT ![rnd.k + 1].signalled = TRUE]
    /\ rnd' = [rnd EXCEPT !.pc = "wait"]
    /\ UNCHANGED pipe
    /\ OthersIdleForRnd

\* waitpid(pids[k], NULL, 0) returns once the worker has terminated
parent_waitpid ==
    /\ rnd.pc = "wait"
    /\ workers[rnd.k + 1].st \in Terminated
    /\ workers' = [workers EXCEPT ![rnd.k + 1].reaped = TRUE]
    /\ rnd' = [rnd EXCEPT !.pc = "kill", !.k = rnd.k + 1]
    /\ UNCHANGED pipe
    /\ OthersIdleForRnd

parent_return ==
    /\ rnd.pc = "kill"
    /\ rnd.k >= rnd.cores_num
    /\ rnd' = [rnd EXCEPT !.pc = "returned"]
    /\ UNCHANGED <<workers, pipe>>
    /\ OthersIdleForRnd

NextRnd ==
    \/ \E p_id \in {-1, 1}, bit_size \in 3..MaxBits, cores_num \in 1..MaxCores :
          random_iZprime_begin(p_id, bit_size, cores_num)
    \/ \E x \in 0..Min(rnd.vx - 1, MaxX) : search_base(x)
    \/ search_attempt
    \/ search_restart
    \/ parent_fork
    \/ parent_close_write
    \/ \E w \in 1..Len(workers), x \in 0..Min(rnd.vx - 1, MaxX) : worker_search(w, x)
    \/ \E w \in 1..Len(workers) : worker_write(w)
    \/ \E w \in 1..Len(workers) : worker_exit(w)
    \/ \E w \in 1..Len(workers) : worker_sigterm(w)
    \/ parent_read
    \/ parent_kill
    \/ parent_waitpid
    \/ parent_return

(***************************************************************************)
(* vx6.c: vx6_sieve of one block y. The wheel vx6 is scaled from           *)
(* 5*7*11*13*17*19 to the base wheel 5*7 that construct_iZm_segment starts *)
(* from, and the three constants of vx6_sieve that follow from the wheel   *)
(* (start_i = 8, first x = 4, first gap = 18) are derived from it.         *)
(***************************************************************************)
\* largest block offset y
MaxY == 7
\* longest gap sequence of a file
MaxGaps == 2

\* the sequences over S of length at most n
SeqsUpTo(S, n) == UNION {[1..k -> S] : k \in 0..n}

vx6 == 5 * 7

\* the number of primes of the wheel (6 in the source)
vx6_wheel_primes == Cardinality({i \in 1..Len(s_primes) : vx6 % s_primes[i] = 0})

\* int start_i = 8: skip 2, 3 and the primes of the wheel
vx6_start_i == 2 + vx6_wheel_primes

\* for (int x = 4; ...): the x below hold the primes of the wheel
vx6_first_x == 1 + vx6_wheel_primes \div 2

\* int gap = 18: 6 for each x skipped
vx6_first_gap == 6 * (vx6_wheel_primes \div 2)

\* x <= vx6, the condition of the scan loop
vx6_scan_short(x) == x < vx6

vx6_scan_continues(x) == x <= vx6

\* cached_vx6_primes = sieve_iZ(vx6): the primes up to vx6 in ascending order
RECURSIVE ascending_seq(_)
ascending_seq(S) ==
    IF S = {} THEN <<>>
    ELSE LET m == CHOOSE a \in S : \A b \in S : a <= b
         IN  <<m>> \o ascending_seq(S \ {m})

cached_vx6_primes == ascending_seq({k \in 2..vx6 : IsPrime(k)})

\* cache_vx6_bitmaps: two bitmaps of vx6 + 100 bits through construct_iZm_segment
cached_x == construct_iZm_segment(vx6, vx6 + 100, bitmap_create(vx6 + 100),
                                  bitmap_create(vx6 + 100))

bitmap_clone(bitmap) == bitmap

\* a clone that is the bitmap it was handed
bitmap_clone_shared(at) == at

\* where the clone lives: bitmap_clone returns a new bitmap_create
bitmap_clone_at(at) == "clone"

\* a solve_for_x_gmp with the sign of x_p reversed
solve_for_x_gmp_plus(matrix_id, p, vx, y) ==
    p - ((vx * y + normalized_xp(matrix_id, p)) % p)

\* uint64_t solve_for_x_gmp(int matrix_id, uint64_t p, size_t vx, mpz_t y);
\* mpz_mod_ui is never negative
solve_for_x_gmp(matrix_id, p, vx, y) ==
    p - ((vx * y - normalized_xp(matrix_id, p)) % p)

\* a gap stored in the uint16_t array p_gaps
u16(v) == v % 65536

\* no block yet; the static caches are NULL; x5_at and x7_at say which
\* bitmap the block's x5 and x7 point to, assigned whether vx6_sieve has set
\* them, free what vx6_free did with them, builds how often a cache was
\* built, seen the y and the gaps of one earlier block that was sieved
BlkIdle ==
    [pc |-> "idle", y |-> 0, yvx |-> 0, upper_limit |-> 0, is_large_limit |-> 1,
     i |-> 0, x |-> 0, gap |-> 0, x5 |-> {}, x7 |-> {}, p_gaps |-> <<>>,
     p_count |-> 0, p_test_ops |-> 0, x5_at |-> "none", x7_at |-> "none", assigned |-> FALSE,
     free |-> "none", primes_null |-> TRUE, cached_primes |-> <<>>,
     x_null |-> TRUE, cached_x5 |-> {}, cached_x7 |-> {}, builds |-> 0,
     seen |-> [y |-> -1, p_gaps |-> <<>>]]

\* cache_primes_obj: cached_vx6_primes = sieve_iZ(vx6) if it is NULL
cache_primes_obj(b) ==
    IF b.primes_null
    THEN [b EXCEPT !.primes_null = FALSE, !.cached_primes = cached_vx6_primes,
                   !.builds = b.builds + 1]
    ELSE b

\* cache_vx6_bitmaps: build cached_x5 and cached_x7 if cached_x5 is NULL
cache_vx6_bitmaps(b) ==
    IF b.x_null
    THEN [b EXCEPT !.x_null = FALSE, !.cached_x5 = cached_x.x5,
                   !.cached_x7 = cached_x.x7, !.builds = b.builds + 1]
    ELSE b

\* a store into the block's x5 or x7 lands in the bitmap it points to
bitmap_store(b) ==
    [b EXCEPT !.cached_x5 = IF b.x5_at = "cached_x5" THEN b.x5 ELSE @,
              !.cached_x7 = IF b.x7_at = "cached_x7" THEN b.x7 ELSE @]

OthersIdleForBlk == UNCHANGED <<sieve, rnd, workers, pipe, calc, disk>>

\* vx6_init(y) and vx6_sieve up to the marking loop
vx6_sieve_begin(y) ==
    /\ blk.pc = "idle" \/ (blk.pc = "freed" /\ blk.free # "unassigned")
    /\ LET c == cache_vx6_bitmaps(cache_primes_obj(blk))
       IN  blk' = [c EXCEPT !.pc = "mark", !.y = y, !.yvx = y * vx6,
                            !.upper_limit = ISqrt(iZ_gmp(y * vx6 + vx6, 1)),
                            !.is_large_limit = 1, !.i = vx6_start_i,
                            !.x5 = bitmap_clone(c.cached_x5),
                            !.x7 = bitmap_clone(c.cached_x7),
                            !.x5_at = bitmap_clone_at("cached_x5"),
                            !.x7_at = bitmap_clone_at("cached_x7"),
                            !.assigned = TRUE, !.free = "none",
                            !.gap = 0, !.x = 0, !.p_test_ops = 0,
                            !.p_gaps = <<>>, !.p_count = 0]
    /\ OthersIdleForBlk

\* one iteration of the marking loop for a cached prime p <= upper_limit
vx6_mark ==
    /\ blk.pc = "mark"
    /\ blk.i < Len(blk.cached_primes)
    /\ blk.cached_primes[blk.i + 1] <= blk.upper_limit
    /\ LET int_p == blk.cached_primes[blk.i + 1]
       IN  blk' = bitmap_store([blk EXCEPT
                      !.x5 = bitmap_clear_mod_p(blk.x5, int_p,
                                 solve_for_x_gmp(-1, int_p, vx6, blk.y), vx6),
                      !.x7 = bitmap_clear_mod_p(blk.x7, int_p,
                                 solve_for_x_gmp(1, int_p, vx6, blk.y), vx6),
                      !.i = blk.i + 1])
    /\ OthersIdleForBlk

\* p > upper_limit: the results are deterministic, leave the loop
vx6_mark_break ==
    /\ blk.pc = "mark"
    /\ blk.i < Len(blk.cached_primes)
    /\ blk.cached_primes[blk.i + 1] > blk.upper_limit
    /\ blk' = [blk EXCEPT !.pc = "scan", !.is_large_limit = 0,
                          !.gap = vx6_first_gap, !.x = vx6_first_x]
    /\ OthersIdleForBlk

\* the marking loop has used every cached prime
vx6_mark_end ==
    /\ blk.pc = "mark"
    /\ blk.i >= Len(blk.cached_primes)
    /\ blk' = [blk EXCEPT !.pc = "scan", !.gap = vx6_first_gap, !.x = vx6_first_x]
    /\ OthersIdleForBlk

\* a count of tests that grows for every candidate
p_test_ops_always(b) == b.p_test_ops + 1

\* p_test_ops++ inside if (is_large_limit)
p_test_ops_next(b) ==
    IF b.is_large_limit = 1 THEN b.p_test_ops + 1 ELSE b.p_test_ops

\* the test of one candidate iZ(x + vx6 * y, lane) whose bit is set
vx6_is_prime(b, lane) ==
    IF b.is_large_limit = 1
    THEN mpz_probab_prime_p(iZ_gmp(b.yvx + b.x, lane))
    ELSE TRUE

\* the body of the scan loop for x5 after gap += 4
scan_x5(b) ==
    LET g == b.gap + 4
    IN  IF bitmap_get_bit(b.x5, b.x)
        THEN IF vx6_is_prime(b, -1)
             THEN [b EXCEPT !.p_gaps = Append(b.p_gaps, u16(g)),
                            !.p_count = b.p_count + 1, !.gap = 0,
                            !.p_test_ops = p_test_ops_next(b)]
             ELSE [b EXCEPT !.x5 = bitmap_clear_bit(b.x5, b.x), !.gap = g,
                            !.p_test_ops = p_test_ops_next(b)]
        ELSE [b EXCEPT !.gap = g]

\* the body of the scan loop for x7 after gap += 2
scan_x7(b) ==
    LET g == b.gap + 2
    IN  IF bitmap_get_bit(b.x7, b.x)
        THEN IF vx6_is_prime(b, 1)
             THEN [b EXCEPT !.p_gaps = Append(b.p_gaps, u16(g)),
                            !.p_count = b.p_count + 1, !.gap = 0,
                            !.p_test_ops = p_test_ops_next(b)]
             ELSE [b EXCEPT !.x7 = bitmap_clear_bit(b.x7, b.x), !.gap = g,
                            !.p_test_ops = p_test_ops_next(b)]
        ELSE [b EXCEPT !.gap = g]

\* one iteration of the scan loop
vx6_scan ==
    /\ blk.pc = "scan"
    /\ vx6_scan_continues(blk.x)
    /\ blk' = bitmap_store([scan_x7(scan_x5(blk)) EXCEPT !.x = blk.x + 1])
    /\ OthersIdleForBlk

\* vx6_resize_p_gaps and return
vx6_sieve_end ==
    /\ blk.pc = "scan"
    /\ ~vx6_scan_continues(blk.x)
    /\ \/ blk' = [blk EXCEPT !.pc = "done"]
       \/ /\ blk.seen.y = -1
          /\ blk' = [blk EXCEPT !.pc = "done",
                                !.seen = [y |-> blk.y, p_gaps |-> blk.p_gaps]]
    /\ OthersIdleForBlk

\* vx6_init(y) and vx6_read_file: y, p_count and p_gaps come from the file,
\* x5 and x7 are left as malloc returned them
vx6_init_read(y, p_gaps) ==
    /\ blk.pc = "idle" \/ (blk.pc = "freed" /\ blk.free # "unassigned")
    /\ blk' = [blk EXCEPT !.pc = "read", !.y = y, !.yvx = 0, !.upper_limit = 0,
                          !.is_large_limit = 1, !.i = 0, !.x = 0, !.gap = 0,
                          !.x5 = {}, !.x7 = {}, !.x5_at = "none",
                          !.x7_at = "none", !.assigned = FALSE, !.free = "none",
                          !.p_test_ops = 0,
                          !.p_gaps = p_gaps, !.p_count = Len(p_gaps)]
    /\ OthersIdleForBlk

\* vx6_free: if (vx_obj->x5) bitmap_free(vx_obj->x5), the same for x7; a
\* pointer never assigned is NULL ("skipped") or not ("unassigned")
vx6_free ==
    /\ blk.pc \in {"done", "read", "far_done"}
    /\ \E outcome \in IF blk.assigned THEN {"bitmaps"}
                       ELSE {"skipped", "unassigned"} :
          blk' = [blk EXCEPT !.pc = "freed", !.free = outcome, !.y = 0,
                             !.yvx = 0, !.upper_limit = 0, !.is_large_limit = 1,
                             !.i = 0, !.x = 0, !.gap = 0, !.x5 = {}, !.x7 = {},
                             !.x5_at = "none", !.x7_at = "none",
                             !.assigned = FALSE, !.p_test_ops = 0,
                             !.p_gaps = <<>>, !.p_count = 0]
    /\ OthersIdleForBlk

\* the wheel of the source, for the walk of a block at full scale
vx6_full == 5 * 7 * 11 * 13 * 17 * 19

\* most gaps recorded by a walk at full scale
MaxFarGaps == 3

\* vx6_init(y) and vx6_sieve up to the scan loop for a block y beyond the
\* reach of every cached prime (is_large_limit stays 1), at the wheel and the
\* constants of the source: x = 4, gap = 18. y itself is not represented
\* (-1): which bits are set and which candidates pass the test is drawn by
\* far_scan.
far_sieve_begin ==
    /\ blk.pc = "idle" \/ (blk.pc = "freed" /\ blk.free # "unassigned")
    /\ LET c == cache_vx6_bitmaps(cache_primes_obj(blk))
       IN  blk' = [c EXCEPT !.pc = "far", !.y = -1, !.yvx = 0, !.upper_limit = 0,
                            !.is_large_limit = 1, !.i = 0, !.x = 4, !.gap = 18,
                            !.x5 = {}, !.x7 = {},
                            !.x5_at = bitmap_clone_at("cached_x5"),
                            !.x7_at = bitmap_clone_at("cached_x7"),
                            !.assigned = TRUE, !.free = "none", !.p_test_ops = 0,
                            !.p_gaps = <<>>, !.p_count = 0]
    /\ OthersIdleForBlk

\* the scan loop over run rows that record nothing (their bits are clear or
\* their candidates fail the test) and one row whose candidate on lane
\* passes: gap grows by 6 a row, by 4 before x5 and 2 before x7, and is
\* stored in the uint16_t p_gaps
far_scan(run, lane) ==
    /\ blk.pc = "far"
    /\ blk.p_count < MaxFarGaps
    /\ blk.x + run <= vx6_full
    /\ LET g == blk.gap + 6 * run + (IF lane < 0 THEN 4 ELSE 6)
       IN  blk' = [blk EXCEPT !.x = blk.x + run + 1,
                              !.p_gaps = Append(blk.p_gaps, u16(g)),
                              !.p_count = blk.p_count + 1,
                              !.p_test_ops = blk.p_test_ops + 1,
                              !.gap = IF lane < 0 THEN 2 ELSE 0]
    /\ OthersIdleForBlk

\* the rows left record nothing; vx6_resize_p_gaps and return
far_sieve_end ==
    /\ blk.pc = "far"
    /\ blk' = [blk EXCEPT !.pc = "far_done",
                          !.gap = blk.gap + 6 * (vx6_full + 1 - blk.x),
                          !.x = vx6_full + 1]
    /\ OthersIdleForBlk

NextBlk ==
    \/ \E y \in 0..MaxY : vx6_sieve_begin(y)
    \/ vx6_mark
    \/ vx6_mark_break
    \/ vx6_mark_end
    \/ vx6_scan
    \/ vx6_sieve_end
    \/ \E y \in 0..MaxY, p_gaps \in SeqsUpTo({2, 4, 22}, MaxGaps) :
          vx6_init_read(y, p_gaps)
    \/ vx6_free
    \/ far_sieve_begin
    \/ \E run \in {0, 3, 10921, 10922}, lane \in {-1, 1} : far_scan(run, lane)
    \/ far_sieve_end

(***************************************************************************)
(* Calls of the arithmetic of iZ.c on drawn arguments: solve_for_x,        *)
(* solve_for_y, modular_inverse. calc holds the last call, its arguments   *)
(* and its result.                                                         *)
(***************************************************************************)
\* largest prime p handed to the solvers
MaxP == 43
\* largest row y handed to solve_for_x
MaxSolveY == 3
\* number of primes (from 5 on) in the largest wheel vx handed to the solvers
MaxWheelPrimes == 6
\* largest a and largest m handed to modular_inverse
MaxA == 60
MaxM == 30
\* return -1 of solve_for_y: the uint64_t 2^64 - 1, kept as -1
NoSolution == -1

\* the product of the first k entries of s_primes
RECURSIVE primorial(_)
primorial(k) == IF k = 0 THEN 1 ELSE primorial(k - 1) * s_primes[k]

\* the wheels vx: 35, 385, 5005, 85085, 1616615, ...
SolveWheels == {primorial(k) : k \in 2..MaxWheelPrimes}

\* the loop of modular_inverse on the ints a, m, x0, x1
RECURSIVE inverse_loop(_, _, _, _)
inverse_loop(a, m, x0, x1) ==
    IF a > 1
    THEN LET q == a \div m
         IN  inverse_loop(m, a % m, x1 - q * x0, x0)
    ELSE x1

\* a modular_inverse that returns x1 as the loop leaves it
modular_inverse_raw(a, m) ==
    IF m = 1 THEN 0 ELSE inverse_loop(a, m, 0, 1)

\* int modular_inverse(int a, int m)
modular_inverse(a, m) ==
    IF m = 1 THEN 0
    ELSE LET x1 == inverse_loop(a, m, 0, 1)
         IN  IF x1 < 0 THEN x1 + m ELSE x1

\* the loop of modular_inverse_gmp on the mpz_t temp_a, temp_m, x0, x1:
\* t = q * x0 replaces the saved x0 before x1 = t
RECURSIVE inverse_loop_gmp(_, _, _, _)
inverse_loop_gmp(a, m, x0, x1) ==
    IF a > 1
    THEN LET q == a \div m
             t == q * x0
         IN  inverse_loop_gmp(m, a % m, x1 - t, t)
    ELSE x1

\* void modular_inverse_gmp(mpz_t mod_inv, mpz_t a, mpz_t m)
modular_inverse_gmp(a, m) ==
    IF m = 1 THEN 0
    ELSE LET x1 == inverse_loop_gmp(a, m, 0, 1)
         IN  IF x1 < 0 THEN x1 + m ELSE x1

\* uint64_t solve_for_y(int matrix_id, uint64_t p, size_t vx, uint64_t x)
solve_for_y(matrix_id, p, vx, x) ==
    IF vx % p = 0 THEN NoSolution
    ELSE LET x_p == normalized_xp(matrix_id, p)
         IN  IF x % p = x_p THEN 0
             ELSE LET delta  == u64_sub_mod(x_p, x, p)
                      vx_inv == modular_inverse(vx, p)
                  IN  (delta * vx_inv) % p

CalcIdle == [op |-> "none"]

OthersIdleForCalc == UNCHANGED <<sieve, rnd, workers, pipe, blk, disk>>

\* the primes p the solvers are called with for the wheel vx
SolvePrimes(vx) == {p \in 5..MaxP : IsPrime(p) /\ vx % p # 0}

call_solve_for_x(matrix_id, p, vx, y) ==
    /\ calc.op = "none"
    /\ calc' = [op |-> "solve_for_x", matrix_id |-> matrix_id, p |-> p,
                vx |-> vx, y |-> y, x |-> solve_for_x(matrix_id, p, vx, y)]
    /\ OthersIdleForCalc

\* y = solve_for_y(matrix_id, p, vx, 1), then solve_for_x(matrix_id, p, vx, y)
call_solve_for_y_x(matrix_id, p, vx) ==
    /\ calc.op = "none"
    /\ LET y == solve_for_y(matrix_id, p, vx, 1)
       IN  calc' = [op |-> "solve_for_y_x", matrix_id |-> matrix_id, p |-> p,
                    vx |-> vx, y |-> y, x |-> solve_for_x(matrix_id, p, vx, y)]
    /\ OthersIdleForCalc

call_modular_inverse(a, m) ==
    /\ calc.op = "none"
    /\ calc' = [op |-> "modular_inverse", a |-> a, m |-> m,
                r |-> modular_inverse(a, m)]
    /\ OthersIdleForCalc

\* number of primes (from 5 on) in the largest wheel vx handed to
\* construct_iZm_segment
MaxSegmentPrimes == 4

SegmentWheels == {primorial(k) : k \in 2..MaxSegmentPrimes}

\* construct_iZm_segment(vx, x5, x7) on two bitmaps from bitmap_create(size)
call_construct_iZm_segment(vx, size) ==
    /\ calc.op = "none"
    /\ LET w == construct_iZm_segment(vx, size, bitmap_create(size),
                                      bitmap_create(size))
       IN  calc' = [op |-> "construct_iZm_segment", vx |-> vx, size |-> size,
                    x5 |-> w.x5, x7 |-> w.x7]
    /\ OthersIdleForCalc

\* size of the bitmaps handed to bitmap_clear_mod_p
MaxClearSize == 10

\* bitmap_clear_mod_p(bitmap, p, start_idx, limit) on a bitmap of size bits
call_bitmap_clear_mod_p(size, bitmap, p, start_idx, limit) ==
    /\ calc.op = "none"
    /\ calc' = [op |-> "bitmap_clear_mod_p", size |-> size, before |-> bitmap,
                p |-> p, start_idx |-> start_idx, limit |-> limit,
                after |-> bitmap_clear_mod_p(bitmap, p, start_idx, limit)]
    /\ OthersIdleForCalc

\* modular_inverse_gmp(mod_inv, a, m) and modular_inverse(a, m) on the same
\* a and m
call_modular_inverse_gmp(a, m) ==
    /\ calc.op = "none"
    /\ calc' = [op |-> "modular_inverse_gmp", a |-> a, m |-> m,
                mod_inv |-> modular_inverse_gmp(a, m),
                r |-> modular_inverse(a, m)]
    /\ OthersIdleForCalc

\* largest x handed to solve_for_y
MaxSolveX == 45

\* solve_for_y(matrix_id, p, vx, x) for a prime p, dividing vx or not
call_solve_for_y(matrix_id, p, vx, x) ==
    /\ calc.op = "none"
    /\ calc' = [op |-> "solve_for_y", matrix_id |-> matrix_id, p |-> p,
                vx |-> vx, x |-> x, y |-> solve_for_y(matrix_id, p, vx, x)]
    /\ OthersIdleForCalc

\* compute_limited_vx(x_n, vx_limit) as sieve_iZm calls it
call_compute_limited_vx(x_n, vx_limit) ==
    /\ calc.op = "none"
    /\ calc' = [op |-> "compute_limited_vx", x_n |-> x_n, vx_limit |-> vx_limit,
                vx |-> compute_limited_vx(x_n, vx_limit)]
    /\ OthersIdleForCalc

\* largest x whose candidate iZ(x, matrix_id) is tested against normalized_xp
MaxLaneX == 90

\* normalized_xp(matrix_id, p), kept with an x it is compared against
call_normalized_xp(matrix_id, p, x) ==
    /\ calc.op = "none"
    /\ calc' = [op |-> "normalized_xp", matrix_id |-> matrix_id, p |-> p,
                x |-> x, x_p |-> normalized_xp(matrix_id, p)]
    /\ OthersIdleForCalc

\* the call has returned and its result has been used
calc_return ==
    /\ calc.op # "none"
    /\ calc' = CalcIdle
    /\ OthersIdleForCalc

NextCalc ==
    \/ \E matrix_id \in {-1, 1}, vx \in SolveWheels, y \in 0..MaxSolveY :
          \E p \in SolvePrimes(vx) : call_solve_for_x(matrix_id, p, vx, y)
    \/ \E matrix_id \in {-1, 1}, vx \in SolveWheels :
          \E p \in SolvePrimes(vx) : call_solve_for_y_x(matrix_id, p, vx)
    \/ \E a \in 1..MaxA, m \in 2..MaxM :
          mpz_gcd(a, m) = 1 /\ call_modular_inverse(a, m)
    \/ \E vx \in SegmentWheels, pad \in {10, 100} :
          call_construct_iZm_segment(vx, vx + pad)
    \/ \E bitmap \in {bitmap_set_all(MaxClearSize),
                       {idx \in 0..(MaxClearSize - 1) : idx % 3 # 1}} :
          \E p \in {2, 3, 5, 7}, start_idx, limit \in 0..(MaxClearSize - 1) :
             call_bitmap_clear_mod_p(MaxClearSize, bitmap, p, start_idx, limit)
    \/ \E a \in 1..MaxA, m \in 2..MaxM :
          mpz_gcd(a, m) = 1 /\ call_modular_inverse_gmp(a, m)
    \/ \E matrix_id \in {-1, 1}, vx \in SolveWheels, x \in 1..MaxSolveX :
          \E p \in {q \in 5..MaxP : IsPrime(q)} :
             call_solve_for_y(matrix_id, p, vx, x)
    \/ \E k \in 2..7, d \in {0, 1, 2, 3, 20} :
          call_compute_limited_vx(2 * primorial(k) + d, 6)
    \/ \E x_n \in 1..100 : call_compute_limited_vx(x_n, 6)
    \/ \E matrix_id \in {-1, 1}, x \in 1..MaxLaneX :
          \E p \in {q \in 5..MaxP : IsPrime(q)} :
             call_normalized_xp(matrix_id, p, x)
    \/ calc_return

(***************************************************************************)
(* The binary files of bitmap.c, primes_obj.c and vx6.c: an object is      *)
(* written with the SHA-256 digest of its payload, the file may be damaged *)
(* on disk, and it is read back. disk holds the object written, the file   *)
(* and what the reader returned.                                           *)
(***************************************************************************)
\* largest bitmap size written
MaxBitmapSize == 9
\* longest prime list written
MaxListLen == 2

\* SHA256(payload): distinct payloads have distinct digests
SHA256(payload) == [sha256 |-> payload]

\* the digest field after memset(sha256, 0, ...), and bytes that are no
\* digest of any payload written here
ZeroDigest == [zeros |-> 32]
StrayDigest == [stray |-> 32]

\* (size + 7) / 8
byte_size(size) == (size + 7) \div 8

RECURSIVE pow2(_)
pow2(e) == IF e = 0 THEN 1 ELSE 2 * pow2(e - 1)

RECURSIVE byte_value(_, _, _)
byte_value(bits, j, i) ==
    IF i = 8 THEN 0
    ELSE (IF (8 * j + i) \in bits THEN pow2(i) ELSE 0) + byte_value(bits, j, i + 1)

\* bitmap->data: bit idx is bit (idx % 8) of byte (idx / 8)
bitmap_data(size, bits) == [j \in 1..byte_size(size) |-> byte_value(bits, j - 1, 0)]

\* the bits that are 1 in the bytes data
data_bits(data) ==
    {idx \in 0..(8 * Len(data) - 1) : (data[(idx \div 8) + 1] \div pow2(idx % 8)) % 2 = 1}

DiskEmpty == [pc |-> "empty"]

OthersIdleForDisk == UNCHANGED <<sieve, rnd, workers, pipe, blk, calc>>

\* bitmap_write_file: size, data, then the digest of data
bitmap_write_file(size, bits) ==
    /\ disk.pc = "empty"
    /\ LET data == bitmap_data(size, bits)
       IN  disk' = [pc |-> "written", kind |-> "bitmap", damaged |-> FALSE, result |-> [ret |-> "none"],
                    obj |-> [size |-> size, bits |-> bits],
                    file |-> [size |-> size, data |-> data, sha256 |-> SHA256(data)]]
    /\ OthersIdleForDisk

\* bitmap_read_file: NULL unless the stored digest is that of the data read
bitmap_read_file ==
    /\ disk.pc = "written" /\ disk.kind = "bitmap"
    /\ disk' = [disk EXCEPT !.pc = "read",
                   !.result = IF disk.file.size = 0 THEN [ret |-> "NULL"]
                              ELSE IF disk.file.sha256 # SHA256(disk.file.data)
                                   THEN [ret |-> "NULL"]
                                   ELSE [ret |-> "bitmap",
                                         obj |-> [size |-> disk.file.size,
                                                  bits |-> data_bits(disk.file.data)]]]
    /\ OthersIdleForDisk

\* primes_obj_compute_hash: refuses an empty list and leaves sha256 as it is
primes_obj_compute_hash(p_array, sha256) ==
    IF Len(p_array) = 0 THEN sha256 ELSE SHA256(p_array)

\* primes_obj_validate_hash: 0 when the digests agree, -1 otherwise and for
\* an empty list
primes_obj_validate_hash(p_array, sha256) ==
    IF Len(p_array) = 0 THEN -1
    ELSE IF SHA256(p_array) # sha256 THEN -1 ELSE 0

\* primes_obj_write_file of a list whose sha256 is still as primes_obj_init
\* left it
primes_obj_write_file(p_array) ==
    /\ disk.pc = "empty"
    /\ disk' = [pc |-> "written", kind |-> "primes", damaged |-> FALSE, result |-> [ret |-> "none"],
                obj |-> [p_count |-> Len(p_array), p_array |-> p_array],
                file |-> [p_count |-> Len(p_array), p_array |-> p_array,
                          sha256 |-> primes_obj_compute_hash(p_array, ZeroDigest)]]
    /\ OthersIdleForDisk

\* primes_obj_read_file: primes_obj_init(p_count) is NULL for p_count <= 0
primes_obj_read_file ==
    /\ disk.pc = "written" /\ disk.kind = "primes"
    /\ disk' = [disk EXCEPT !.pc = "read",
                   !.result = IF disk.file.p_count <= 0 THEN [ret |-> "NULL"]
                              ELSE IF primes_obj_validate_hash(disk.file.p_array,
                                                               disk.file.sha256) # 0
                                   THEN [ret |-> "NULL"]
                                   ELSE [ret |-> "primes_obj",
                                         obj |-> [p_count |-> disk.file.p_count,
                                                  p_array |-> disk.file.p_array]]]
    /\ OthersIdleForDisk

\* hash_int_array: computes nothing for size 0 and leaves hash as it is
hash_int_array(array, hash) ==
    IF Len(array) = 0 THEN hash ELSE SHA256(array)

\* the digests an uninitialised 32-byte buffer of a vx6 call may hold
UninitDigests(file_sha256) == {ZeroDigest, StrayDigest, file_sha256}

\* vx6_write_file: y with its NUL, p_count, p_gaps, then the digest;
\* vx_obj->sha256 is uninitialised before the call
vx6_write_file(y, p_gaps) ==
    /\ disk.pc = "empty"
    /\ \E uninit \in {ZeroDigest, StrayDigest} :
          disk' = [pc |-> "written", kind |-> "vx6", damaged |-> FALSE, result |-> [ret |-> "none"],
                   obj |-> [y |-> y, p_count |-> Len(p_gaps), p_gaps |-> p_gaps],
                   file |-> [y |-> y \o <<0>>, p_count |-> Len(p_gaps),
                             p_gaps |-> p_gaps,
                             sha256 |-> hash_int_array(p_gaps, uninit)]]
    /\ OthersIdleForDisk

\* vx6_read_file fills the caller's vx_obj and returns 0 when the digests
\* differ; computed_hash is uninitialised before hash_int_array
vx6_read_file ==
    /\ disk.pc = "written" /\ disk.kind = "vx6"
    /\ \E uninit \in UninitDigests(disk.file.sha256) :
          LET computed_hash == hash_int_array(disk.file.p_gaps, uninit)
          IN  disk' = [disk EXCEPT !.pc = "read",
                          !.result = [ret |-> IF disk.file.sha256 # computed_hash
                                              THEN "0" ELSE "1",
                                      obj |-> [y |-> c_string(disk.file.y),
                                               p_count |-> disk.file.p_count,
                                               p_gaps |-> disk.file.p_gaps]]]
    /\ OthersIdleForDisk

\* the payload the digest of the file covers
FilePayload(d) ==
    CASE d.kind = "bitmap" -> d.file.data
      [] d.kind = "primes" -> d.file.p_array
      [] d.kind = "vx6"    -> d.file.p_gaps

\* the stored digest is overwritten on disk
damage_digest ==
    /\ disk.pc = "written"
    /\ disk.file.sha256 # StrayDigest
    /\ disk' = [disk EXCEPT !.damaged = TRUE, !.file.sha256 = StrayDigest]
    /\ OthersIdleForDisk

\* one element of the payload is overwritten on disk
damage_payload(j, v) ==
    /\ disk.pc = "written"
    /\ j \in 1..Len(FilePayload(disk))
    /\ FilePayload(disk)[j] # v
    /\ disk' = CASE disk.kind = "bitmap" ->
                      [disk EXCEPT !.damaged = TRUE, !.file.data[j] = v]
                 [] disk.kind = "primes" ->
                      [disk EXCEPT !.damaged = TRUE, !.file.p_array[j] = v]
                 [] disk.kind = "vx6" ->
                      [disk EXCEPT !.damaged = TRUE, !.file.p_gaps[j] = v]
    /\ OthersIdleForDisk

NextDisk ==
    \/ \E size \in 1..MaxBitmapSize : \E bits \in SUBSET (0..(size - 1)) :
          bitmap_write_file(size, bits)
    \/ bitmap_read_file
    \/ \E p_array \in SeqsUpTo({2, 3, 5}, MaxListLen) : primes_obj_write_file(p_array)
    \/ primes_obj_read_file
    \/ \E y \in {<<48>>, <<49, 48>>}, p_gaps \in SeqsUpTo({2, 4, 22}, MaxGaps) :
          vx6_write_file(y, p_gaps)
    \/ vx6_read_file
    \/ damage_digest
    \/ \E j \in 1..2, v \in {1, 3} : damage_payload(j, v)

(***************************************************************************)
(* Specifications.                                                         *)
(***************************************************************************)
Init ==
    /\ sieve = SieveIdle
    /\ rnd = RndIdle
    /\ workers = <<>>
    /\ pipe = PipeEmpty
    /\ blk = BlkIdle
    /\ calc = CalcIdle
    /\ disk = DiskEmpty

\* the two sieves alone
SpecSieve == Init /\ [][NextSieve]_vars

\* random_iZprime alone
SpecRnd == Init /\ [][NextRnd]_vars

\* vx6_sieve alone
SpecBlk == Init /\ [][NextBlk]_vars

\* the calls of the arithmetic alone
SpecCalc == Init /\ [][NextCalc]_vars

\* the binary files alone
SpecDisk == Init /\ [][NextDisk]_vars

Next == NextSieve \/ NextRnd \/ NextBlk \/ NextCalc \/ NextDisk

Spec == Init /\ [][Next]_vars

\* the primes <= n
PrimesUpTo(n) == {p \in 2..n : IsPrime(p)}

SieveReturned == sieve.pc = "done"

SieveResult == sieve.primes.p_array

(***************************************************************************)
(* The sieves: claims C1 - C3.                                             *)
(***************************************************************************)
\* C1: whenever sieve_iZ(n) has returned, its list is exactly the primes
\* p <= n in strictly ascending order (no composite, no duplicate, no
\* omission, no entry > n), the list for n = 30 being 2 3 5 7 11 13 17 19 23
\* 29; and a run of sieve_iZ never faults.
C1_sieve_iZ_primes ==
    sieve.alg = "iZ" =>
        /\ sieve.pc # "crashed"
        /\ SieveReturned =>
              /\ Ascending(SieveResult)
              /\ Range(SieveResult) = PrimesUpTo(sieve.n)
              /\ Len(SieveResult) = sieve.primes.p_count
              /\ sieve.n = 30 => SieveResult = <<2, 3, 5, 7, 11, 13, 17, 19, 23, 29>>

\* sieve_iZ(30) has returned its ten primes, after dropping the trailing 31
C1_witness ==
    /\ sieve.alg = "iZ" /\ SieveReturned /\ sieve.n = 30
    /\ SieveResult = <<2, 3, 5, 7, 11, 13, 17, 19, 23, 29>>

\* C2: every call sieve_iZm(n), n >= 2, ends by returning exactly the primes
\* p <= n in ascending order (the sequence sieve_iZ(n) and the reference sieve
\* give), also for n so small that only segment 0 is processed.
C2_sieve_iZm_primes ==
    (sieve.alg = "iZm" /\ sieve.pc \in {"done", "crashed"}) =>
        /\ SieveReturned
        /\ Ascending(SieveResult)
        /\ Range(SieveResult) = PrimesUpTo(sieve.n)

\* C3: in every state of a run of sieve_iZ or sieve_iZm the PRIMES_OBJ count
\* never exceeds its capacity, so no append stores past the allocated array.
C3_count_within_capacity ==
    /\ sieve.primes.p_count <= sieve.primes.capacity
    /\ ~sieve.primes.overrun

(***************************************************************************)
(* random_iZprime: claims C4 - C8.                                         *)
(***************************************************************************)
\* the value the in-process call has returned, and the candidates the
\* workers have published
RndReturnedInProcess == rnd.pc = "returned" /\ rnd.cores_num < 2
RndFound ==
    (IF RndReturnedInProcess THEN {rnd.p} ELSE {}) \cup Range(pipe.published)

\* smallest k with 2^k >= n
RECURSIVE CeilLog2(_)
CeilLog2(n) == IF n <= 1 THEN 0 ELSE 1 + CeilLog2((n + 1) \div 2)

\* C4: the prime found by random_iZprime lies on the requested lane:
\* p mod 6 = (6 + lane) mod 6, for every random base and every number of
\* search steps.
C4_prime_on_lane ==
    \A q \in RndFound : q % 6 = (6 + rnd.p_id) % 6

\* C5: the prime found by random_iZprime(bit_size) has a bit-length in
\* [bit_size - 1, bit_size + ceil(log2(vx))].
C5_bit_length ==
    \A q \in RndFound :
        /\ mpz_sizeinbase2(q) >= rnd.bit_size - 1
        /\ mpz_sizeinbase2(q) <= rnd.bit_size + CeilLog2(rnd.vx)

\* C6: with two or more workers, once the parent has read from the pipe the
\* value it holds (and returns) is the complete candidate published first:
\* the buffer holds that candidate's digits up to its NUL.
C6_first_candidate_complete ==
    (rnd.cores_num >= 2 /\ rnd.n > 0) =>
        /\ rnd.p = pipe.published[1]
        /\ c_string(rnd.buf) = mpz_get_str(pipe.published[1])
        /\ \E j \in 1..Len(rnd.buf) : rnd.buf[j] = 0

\* C7: a worker is sent the termination signal only after the parent has
\* read the first candidate from the pipe, and when random_iZprime returns
\* every spawned worker has been signalled and reaped.
C7_signal_after_candidate ==
    /\ \A w \in 1..Len(workers) : workers[w].signalled => rnd.n > 0
    /\ (rnd.pc = "returned" /\ rnd.cores_num >= 2) =>
          /\ Len(workers) = rnd.cores_num
          /\ \A w \in 1..Len(workers) :
                /\ workers[w].signalled
                /\ workers[w].reaped
                /\ workers[w].st \in Terminated

\* C8: when the workers terminate without publishing a candidate (the read
\* returns 0), random_iZprime does not return normally with p left unset.
C8_no_candidate_is_fatal ==
    (rnd.cores_num >= 2 /\ rnd.n = 0) => rnd.pc # "returned"

(***************************************************************************)
(* vx6_sieve: claims C9, C10.                                              *)
(***************************************************************************)
\* the anchor iZ(vx6 * y, +1) of the block and the values a consumer
\* reconstructs from it by adding the gaps in turn
BlkAnchor == 6 * vx6 * blk.y + 1

RECURSIVE gap_sum(_, _)
gap_sum(gaps, k) == IF k = 0 THEN 0 ELSE gap_sum(gaps, k - 1) + gaps[k]

BlkValue(k) == BlkAnchor + gap_sum(blk.p_gaps, k)
BlkValues == {BlkValue(k) : k \in 1..Len(blk.p_gaps)}

C10_block_interval ==
    (blk.pc = "done" /\ blk.y >= 1 /\ blk.is_large_limit = 0) =>
        BlkValues = {q \in (6 * vx6 * blk.y)..(6 * vx6 * (blk.y + 1) - 1) : IsPrime(q)}

\* C10 amended: for a block offset y >= 1 sieved deterministically, the
\* reconstructed values are in ascending order and are exactly the primes q
\* with 6*vx6*y + 1 < q <= 6*vx6*(y+1) + 1: the anchor itself is left to the
\* block before, the next anchor belongs to this block.
C10_block_interval_amended ==
    (blk.pc = "done" /\ blk.y >= 1 /\ blk.is_large_limit = 0) =>
        /\ BlkValues = {q \in (BlkAnchor + 1)..(6 * vx6 * (blk.y + 1) + 1) : IsPrime(q)}
        /\ \A k \in 1..Len(blk.p_gaps) : blk.p_gaps[k] > 0

\* the deterministic block y = 1 is done: the prime anchor 211 is not among
\* its values, the next anchor 421 is
C10_witness ==
    /\ blk.pc = "done" /\ blk.y = 1 /\ blk.is_large_limit = 0
    /\ 211 \notin BlkValues /\ 421 \in BlkValues /\ 419 \in BlkValues

(***************************************************************************)
(* vx6_sieve at block 0: claim C11.                                        *)
(***************************************************************************)
\* the first value the walk of block 0 covers: iZ(first x, -1), 23 in the
\* source
BlkFirstCovered == 6 * vx6_first_x - 1

\* C11: at block y = 0 the first gap leads from the anchor 1 to the first
\* prime the walk covers (the prime at the first x), and the gaps of block 0
\* reconstruct every prime p with that first prime <= p < 6*vx6: the cached
\* primes used for sieving are not struck themselves.
C11_block0_first_gap ==
    (blk.pc = "done" /\ blk.y = 0) =>
        /\ blk.p_count >= 1
        /\ BlkAnchor = 1
        /\ BlkValue(1) = BlkFirstCovered
        /\ {q \in BlkFirstCovered..(6 * vx6 - 1) : IsPrime(q)} \subseteq BlkValues

(***************************************************************************)
(* The arithmetic of iZ.c: claims C12 - C18.                               *)
(***************************************************************************)
\* C12: for every lane, every prime p >= 5 with gcd(vx, p) = 1 and every
\* y >= 0 (y = 0 and vx*y < normalized_xp(lane, p) included), the x returned
\* by solve_for_x satisfies (x + vx*y) mod p = normalized_xp(lane, p) and
\* 0 < x <= p.
C12_solve_for_x ==
    calc.op = "solve_for_x" =>
        /\ (calc.x + calc.vx * calc.y) % calc.p = normalized_xp(calc.matrix_id, calc.p)
        /\ 0 < calc.x /\ calc.x <= calc.p

\* C13: for every lane and every prime p with gcd(vx, p) = 1, with
\* y = solve_for_y(lane, p, vx, 1) the call solve_for_x(lane, p, vx, y)
\* returns 1 and (1 + vx*y) mod p = normalized_xp(lane, p).
C13_solver_round_trip ==
    calc.op = "solve_for_y_x" =>
        /\ calc.x = 1
        /\ (1 + calc.vx * calc.y) % calc.p = normalized_xp(calc.matrix_id, calc.p)

\* the primes that divide vx
WheelDivisors(vx) == {q \in Range(s_primes) : vx % q = 0}
CoprimeToWheel(n, vx) == \A q \in WheelDivisors(vx) : n % q # 0

\* C14: after construct_iZm_segment(vx, x5, x7) on fresh bitmaps, for every
\* 1 <= x <= vx the bit x5[x] is 1 iff 6x-1 is divisible by no prime dividing
\* vx, and x7[x] is 1 iff 6x+1 is divisible by no prime dividing vx.
C14_wheel_bits ==
    calc.op = "construct_iZm_segment" =>
        \A x \in 1..calc.vx :
            /\ bitmap_get_bit(calc.x5, x) <=> CoprimeToWheel(6 * x - 1, calc.vx)
            /\ bitmap_get_bit(calc.x7, x) <=> CoprimeToWheel(6 * x + 1, calc.vx)

\* the wheel of 5*7*11 is built: 11 (x = 2 in x5) is cleared, 13 is kept
C14_witness ==
    /\ calc.op = "construct_iZm_segment" /\ calc.vx = 385
    /\ ~bitmap_get_bit(calc.x5, 2) /\ bitmap_get_bit(calc.x7, 2)

\* C15: the positions of 1..vx whose bit is set in x5 or in x7 after
\* construct_iZm_segment are exactly the x for which neither 6x-1 nor 6x+1
\* is divisible by a prime dividing vx.
C15_wheel_union ==
    calc.op = "construct_iZm_segment" =>
        (calc.x5 \cup calc.x7) \cap (1..calc.vx)
            = {x \in 1..calc.vx : CoprimeToWheel(6 * x - 1, calc.vx)
                                  /\ CoprimeToWheel(6 * x + 1, calc.vx)}

\* C15 amended: the positions of 1..vx set in x5 or in x7 are exactly the x
\* for which 6x-1 or 6x+1 is divisible by no prime dividing vx; the positions
\* set in both are exactly those for which neither is divisible.
C15_wheel_union_amended ==
    calc.op = "construct_iZm_segment" =>
        /\ (calc.x5 \cup calc.x7) \cap (1..calc.vx)
              = {x \in 1..calc.vx : CoprimeToWheel(6 * x - 1, calc.vx)
                                    \/ CoprimeToWheel(6 * x + 1, calc.vx)}
        /\ (calc.x5 \cap calc.x7) \cap (1..calc.vx)
              = {x \in 1..calc.vx : CoprimeToWheel(6 * x - 1, calc.vx)
                                    /\ CoprimeToWheel(6 * x + 1, calc.vx)}

\* the wheel of 35 is built: x = 4 (23 and 25) is set in x5 only
C15_witness ==
    /\ calc.op = "construct_iZm_segment" /\ calc.vx = 35
    /\ 4 \in calc.x5 \cup calc.x7 /\ 4 \notin calc.x5 \cap calc.x7

\* the pattern of x7 for vx = 35: x not -1 mod 5 and not 1 mod 7
X7Pattern35 == {x \in 1..35 : (x + 1) % 5 # 0 /\ (x - 1) % 7 # 0}

\* C16: after construct_iZm_segment(35, x5, x7) the bits set in x5 over
\* 1..35 are exactly 2 3 4 6 7 9 10 12 13 14 15 17 18 19 20 22 23 24 25 27 28
\* 29 30 32 33 34, and x7 holds the symmetric pattern.
C16_wheel35 ==
    (calc.op = "construct_iZm_segment" /\ calc.vx = 35) =>
        /\ calc.x5 \cap (1..35) = {2, 3, 4, 6, 7, 9, 10, 12, 13, 14, 15, 17, 18,
                                   19, 20, 22, 23, 24, 25, 27, 28, 29, 30, 32,
                                   33, 34}
        /\ calc.x7 \cap (1..35) = X7Pattern35

\* C16 amended: after construct_iZm_segment(35, x5, x7) the bits set in x5
\* over 1..35 are exactly the x not 1 mod 5 and not -1 mod 7, that is 2 3 4 5
\* 7 8 9 10 12 14 15 17 18 19 22 23 24 25 28 29 30 32 33 35, and x7 holds the
\* symmetric pattern.
C16_wheel35_amended ==
    (calc.op = "construct_iZm_segment" /\ calc.vx = 35) =>
        /\ calc.x5 \cap (1..35) = {2, 3, 4, 5, 7, 8, 9, 10, 12, 14, 15, 17, 18,
                                   19, 22, 23, 24, 25, 28, 29, 30, 32, 33, 35}
        /\ calc.x5 \cap (1..35) = {x \in 1..35 : (x - 1) % 5 # 0 /\ (x + 1) % 7 # 0}
        /\ calc.x7 \cap (1..35) = X7Pattern35

\* the wheel of 35 is built: bit 6 of x5 (6*6 - 1 = 35) is clear, bit 5 is set
C16_witness ==
    /\ calc.op = "construct_iZm_segment" /\ calc.vx = 35
    /\ 6 \notin calc.x5 /\ 5 \in calc.x5 /\ 35 \in calc.x7

\* C17: solve_for_x(+1, 23, 1616615, 0) = normalized_xp(+1, 23) = 4.
C17_seed_S4 ==
    (calc.op = "solve_for_x" /\ calc.matrix_id = 1 /\ calc.p = 23
     /\ calc.vx = 1616615 /\ calc.y = 0) =>
        /\ calc.x = normalized_xp(1, 23)
        /\ normalized_xp(1, 23) = 4

\* C18: for all a >= 1 and m > 1 with gcd(a, m) = 1, a < m or a > m,
\* modular_inverse(a, m) returns r with 0 <= r < m and a*r mod m = 1;
\* modular_inverse(5, 23) = 14.
C18_modular_inverse ==
    calc.op = "modular_inverse" =>
        /\ 0 <= calc.r /\ calc.r < calc.m
        /\ (calc.a * calc.r) % calc.m = 1
        /\ (calc.a = 5 /\ calc.m = 23) => calc.r = 14

\* modular_inverse(5, 23) has returned 14
C18_witness ==
    calc.op = "modular_inverse" /\ calc.a = 5 /\ calc.m = 23 /\ calc.r = 14

(***************************************************************************)
(* The binary files: claims C19, C20.                                      *)
(***************************************************************************)
\* C19: an object written and read back from an undamaged file is returned
\* equal to the one written: a bitmap with the same size and bits, a prime
\* list (an empty one included) with the same count and primes, a sieved
\* block with the same y, p_count and gaps.
C19_write_read_round_trip ==
    (disk.pc = "read" /\ ~disk.damaged
     /\ (disk.kind = "vx6" => disk.obj.p_count >= 1)) =>
        (disk.result.ret \notin {"NULL", "0"} /\ disk.result.obj = disk.obj)

\* C20: a reader rejects (NULL, or 0 from vx6_read_file) every file whose
\* stored digest is not the digest of the payload read, whatever the length
\* of the payload, zero elements included.
C20_reject_digest_mismatch ==
    (disk.pc = "read" /\ disk.file.sha256 # SHA256(FilePayload(disk))) =>
        disk.result.ret \in {"NULL", "0"}

(***************************************************************************)
(* bitmap_clear_mod_p: claim C21.                                          *)
(***************************************************************************)
\* C21: bitmap_clear_mod_p(bitmap, p, start, limit) clears the bits at
\* start, start + p, start + 2p, ... up to and including limit, leaves every
\* other bit as it was, and changes nothing when start > limit.
C21_clear_mod_p_frame ==
    calc.op = "bitmap_clear_mod_p" =>
        /\ \A idx \in 0..(calc.size - 1) :
              LET struck == \E k \in 0..calc.size :
                               idx = calc.start_idx + k * calc.p /\ idx <= calc.limit
              IN  bitmap_get_bit(calc.after, idx) =
                     (bitmap_get_bit(calc.before, idx) /\ ~struck)
        /\ calc.start_idx > calc.limit => calc.after = calc.before

\* a call whose last struck index is limit itself, with bits left standing
C21_witness ==
    /\ calc.op = "bitmap_clear_mod_p"
    /\ calc.start_idx < calc.limit
    /\ (calc.limit - calc.start_idx) % calc.p = 0
    /\ bitmap_get_bit(calc.before, calc.limit)
    /\ ~bitmap_get_bit(calc.after, calc.limit)
    /\ calc.after # {}

(***************************************************************************)
(* The caches of vx6.c: claim C22.                                         *)
(***************************************************************************)
\* C22: across any sequence of vx6_sieve calls the cached prime list and the
\* cached bitmaps are built once, at first use, and never modified: a block
\* sieves clones, the caches stay equal to sieve_iZ(vx6) and to the wheel of
\* construct_iZm_segment(vx6), and the gaps found for a y are those of the
\* an earlier block sieved at that y.
C22_caches_built_once ==
    /\ blk.builds = (IF blk.primes_null THEN 0 ELSE 1) + (IF blk.x_null THEN 0 ELSE 1)
    /\ ~blk.primes_null => blk.cached_primes = cached_vx6_primes
    /\ ~blk.x_null => (blk.cached_x5 = cached_x.x5 /\ blk.cached_x7 = cached_x.x7)
    /\ blk.pc \in {"mark", "scan", "done"} =>
          (~blk.primes_null /\ ~blk.x_null
           /\ blk.x5_at \notin {"cached_x5", "cached_x7"}
           /\ blk.x7_at \notin {"cached_x5", "cached_x7"})
    /\ (blk.pc = "done" /\ blk.seen.y = blk.y) => blk.p_gaps = blk.seen.p_gaps

\* a block is done at the y of an earlier block, with the gaps of that
\* block; its own bitmaps have been struck, the caches have not
C22_witness ==
    /\ blk.pc = "done" /\ blk.y = 1
    /\ blk.seen.y = 1 /\ blk.seen.p_gaps = blk.p_gaps /\ Len(blk.p_gaps) >= 10
    /\ blk.x5 # blk.cached_x5 /\ blk.x7 # blk.cached_x7
    /\ blk.builds = 2

(***************************************************************************)
(* The lifecycle of a block: claim C28.                                    *)
(***************************************************************************)
\* C28: in every lifecycle vx6_init, then vx6_sieve or vx6_read_file, then
\* vx6_free, the x5 and x7 of the block are read or freed only after they
\* were assigned: vx6_free on a block that was read from a file and never
\* sieved releases no unassigned bitmap.
C28_free_assigned_only ==
    blk.pc = "freed" => blk.free \in {"bitmaps", "skipped"}

(***************************************************************************)
(* compute_limited_vx: claim C23.                                          *)
(***************************************************************************)
\* the largest primorial 5 * 7 * ... of at most n primes whose factors after
\* 5 and 7 each satisfied vx * p_next < x_n / 2 when multiplied in
LargestPrimorial(x_n, n) ==
    LET k == CHOOSE k \in 2..n :
                /\ \A j \in 3..k : primorial(j) < x_n \div 2
                /\ k < n => ~(primorial(k + 1) < x_n \div 2)
    IN  primorial(k)

\* C23: compute_limited_vx(x_n, 6) returns the largest primorial of
\* consecutive primes from {5, 7, 11, 13, 17, 19, 23} that satisfies the
\* growth condition, never less than 35; for x_n with 1616615 * 23 < x_n / 2
\* it is 5*7*11*13*17*19*23.
C23_limited_vx ==
    (calc.op = "compute_limited_vx" /\ calc.vx_limit = 6) =>
        /\ calc.vx = LargestPrimorial(calc.x_n, 7)
        /\ calc.vx >= 35
        /\ 1616615 * 23 < calc.x_n \div 2 => calc.vx = 1616615 * 23

\* C23 amended: compute_limited_vx(x_n, 6) returns the largest primorial of
\* consecutive primes from {5, 7, 11, 13, 17, 19} (vx_limit = 6 primes in
\* all, 5 and 7 included) that satisfies the growth condition, never less
\* than 35; for x_n with 1616615 < x_n / 2 it is 5*7*11*13*17*19 = 1616615,
\* and 23 is never multiplied in.
C23_limited_vx_amended ==
    (calc.op = "compute_limited_vx" /\ calc.vx_limit = 6) =>
        /\ calc.vx = LargestPrimorial(calc.x_n, 6)
        /\ calc.vx >= 35
        /\ 1616615 < calc.x_n \div 2 => calc.vx = 1616615

\* a call with 1616615 * 23 < x_n / 2 that returned 1616615
C23_witness ==
    /\ calc.op = "compute_limited_vx" /\ calc.vx_limit = 6
    /\ 1616615 * 23 < calc.x_n \div 2
    /\ calc.vx = 1616615

(***************************************************************************)
(* solve_for_y: claim C24.                                                 *)
(***************************************************************************)
\* C24: for every prime p not dividing vx, every lane and every x >= 1
\* (x > normalized_xp(lane, p) and x >= p included), solve_for_y returns the
\* smallest y >= 0 with (x + vx*y) mod p = normalized_xp(lane, p), so
\* 0 <= y < p; when p divides vx it returns the sentinel (uint64)(-1).
C24_solve_for_y ==
    calc.op = "solve_for_y" =>
        IF calc.vx % calc.p = 0
        THEN calc.y = NoSolution
        ELSE /\ calc.y \in 0..(calc.p - 1)
             /\ (calc.x + calc.vx * calc.y) % calc.p
                    = normalized_xp(calc.matrix_id, calc.p)
             /\ \A y \in 0..(calc.p - 1) :
                   (calc.x + calc.vx * y) % calc.p
                      = normalized_xp(calc.matrix_id, calc.p) => calc.y <= y

(***************************************************************************)
(* modular_inverse_gmp: claim C25.                                         *)
(***************************************************************************)
\* C25: for every a >= 1 and m > 1 with gcd(a, m) = 1, modular_inverse_gmp
\* computes the value modular_inverse computes: a result r in [0, m) with
\* a*r mod m = 1.
C25_inverse_gmp_agrees ==
    calc.op = "modular_inverse_gmp" =>
        /\ calc.mod_inv = calc.r
        /\ calc.mod_inv \in 0..(calc.m - 1)
        /\ (calc.a * calc.mod_inv) % calc.m = 1

(***************************************************************************)
(* The two modes of vx6_sieve: claim C26.                                  *)
(***************************************************************************)
\* some cached prime from index start_i on exceeds upper_limit
BlkSomeExceeded ==
    \E i \in vx6_start_i..(Len(blk.cached_primes) - 1) :
        blk.cached_primes[i + 1] > blk.upper_limit

\* the number of bits set in x5 and x7 at the positions the walk has passed
BlkScannedBits ==
    Cardinality({x \in vx6_first_x..(blk.x - 1) : bitmap_get_bit(blk.x5, x)})
        + Cardinality({x \in vx6_first_x..(blk.x - 1) : bitmap_get_bit(blk.x7, x)})

\* the number of bits set in x5 and x7 at the position the walk is at
BlkBitsAtX ==
    (IF bitmap_get_bit(blk.x5, blk.x) THEN 1 ELSE 0)
        + (IF bitmap_get_bit(blk.x7, blk.x) THEN 1 ELSE 0)

\* C26: in vx6_sieve a primality test is run on a surviving candidate if and
\* only if no cached prime from index start_i on exceeded upper_limit. When
\* one did, sieving stopped at that prime, no test is run and every bit still
\* set records a gap; otherwise every surviving bit is tested, a bit that
\* fails is cleared and records no gap, and its distance is carried into the
\* next gap recorded.
C26_tests_iff_large ==
    /\ [](blk.pc \in {"scan", "done"} =>
            /\ (blk.is_large_limit = 0) <=> BlkSomeExceeded
            /\ blk.is_large_limit = 0 =>
                  /\ blk.p_test_ops = 0
                  /\ blk.cached_primes[blk.i + 1] > blk.upper_limit
                  /\ \A j \in vx6_start_i..(blk.i - 1) :
                        blk.cached_primes[j + 1] <= blk.upper_limit
            /\ blk.is_large_limit = 1 =>
                  \A x \in vx6_first_x..(blk.x - 1) :
                     /\ bitmap_get_bit(blk.x5, x) => IsPrime(iZ(x + blk.yvx, -1))
                     /\ bitmap_get_bit(blk.x7, x) => IsPrime(iZ(x + blk.yvx, 1))
            /\ blk.p_count = Len(blk.p_gaps)
            /\ blk.p_count = BlkScannedBits
            /\ gap_sum(blk.p_gaps, blk.p_count) + blk.gap = 6 * (blk.x - 1))
    /\ [][(blk.pc = "scan" /\ blk'.pc = "scan") =>
            blk'.p_test_ops - blk.p_test_ops =
               IF blk.is_large_limit = 1 THEN BlkBitsAtX ELSE 0]_vars

\* the block y = 6 is done: every cached prime was used, 1369 = 37 * 37
\* survived them, was tested and cleared, and recorded no gap
C26_witness ==
    /\ blk.pc = "done" /\ blk.y = 6 /\ blk.is_large_limit = 1
    /\ blk.p_test_ops > blk.p_count
    /\ iZ(18 + blk.yvx, 1) = 1369
    /\ ~bitmap_get_bit(blk.x7, 18)
    /\ 1369 \notin BlkValues

(***************************************************************************)
(* The assertions of iZ and iZ_gmp: claim C27.                             *)
(***************************************************************************)
\* C27: every call of iZ_gmp made by set_random_base satisfies the asserted
\* preconditions x > 0 and i in {-1, +1}, for every x drawn from [0, vx) and
\* every vx of gmp_compute_max_vx: no assertion fires, neither in the
\* calling process nor in a worker.
C27_asserts_never_fire ==
    /\ rnd.pc # "aborted"
    /\ \A w \in 1..Len(workers) : workers[w].st # "aborted"

(***************************************************************************)
(* The gap sequence and the bitmaps: claim C29.                            *)
(***************************************************************************)
\* the distances 6*x + lane - 1 of the bits set in x5 and x7 over [1, vx6]
BlkSetDistances ==
    {6 * x - 2 : x \in {x \in 1..vx6 : bitmap_get_bit(blk.x5, x)}}
        \cup {6 * x : x \in {x \in 1..vx6 : bitmap_get_bit(blk.x7, x)}}

C30_normalized_xp_divides ==
    calc.op = "normalized_xp" =>
        /\ (iZ(calc.x, calc.matrix_id) % calc.p = 0) <=> (calc.x % calc.p = calc.x_p)
        /\ 0 < calc.x_p
        /\ calc.x_p < calc.p

\* 115 = 5 * 23 on lane +1: x = 19 = normalized_xp(1, 23); and a row past p,
\* x = 42 = 19 + 23, 253 = 11 * 23
C30_witness ==
    /\ calc.op = "normalized_xp"
    /\ calc.matrix_id = 1
    /\ calc.p = 23
    /\ calc.x = 42
    /\ calc.x_p = 19
    /\ iZ(calc.x, calc.matrix_id) = 253

=============================================================================
